---- MODULE Spec2Model ----
(***************************************************************************)
(* A model of agent.py, the JaTango voice product agent: one              *)
(* ProductAssistant session with its two tools, create_product and        *)
(* add_product_to_show, the room's remote participants, the persistence   *)
(* endpoint the POST goes to and the peer the RPC goes to.                *)
(*                                                                         *)
(* A Python string built by an f-string is a sequence of its pieces, so   *)
(* that "begins with" is the first piece and "exactly" is the whole       *)
(* sequence.  A Python call is an outcome: a value returned or an         *)
(* exception raised.                                                       *)
(*                                                                         *)
(* The runtime dispatches one tool invocation at a time.  A tool runs to   *)
(* its await (the POST, the RPC) in one step and from the answer to its    *)
(* return in another; participants join and leave the room at any time.    *)
(***************************************************************************)
EXTENDS Integers, Sequences, FiniteSets, TLC

VARIABLES
    room,               \* ctx.room.remote_participants, in iteration order
    last_product_id,    \* self._last_product_id
    last_product_name,  \* self._last_product_name
    pc,                 \* where the session's tool invocation stands
    call,               \* the current (or the last) tool invocation
    hist,               \* what the session has done so far
    good                \* the most recent create_product that reported success

vars == <<room, last_product_id, last_product_name, pc, call, hist, good>>

----------------------------------------------------------------------------
(* Bounds *)

\* tool invocations in one session
MaxCalls == 2

----------------------------------------------------------------------------
(* Values *)

\* Python's None, which is no string
None == "<None>"

\* rtc.ParticipantKind
PARTICIPANT_KIND_AGENT == "AGENT"

ParticipantKinds == {"STANDARD", "SIP", PARTICIPANT_KIND_AGENT}

\* the participants the transport may bring into the room
Universe ==
    { [identity |-> "seller-1", kind |-> "STANDARD"],
      [identity |-> "caller-2", kind |-> "SIP"],
      [identity |-> "agent-9",  kind |-> PARTICIPANT_KIND_AGENT] }

\* the arguments the language model may give the tools
Names == {"", "mug"}
Weights == {8}
Prices == {1999}
Quantities == {3}
ProductIds == {"prod-1", "zzz"}

\* bool(x) of an optional string
Truthy(s) == s # None /\ s # ""

\* x or y
Or(x, y) == IF Truthy(x) THEN x ELSE y

\* the outcome of a call
Return(v) == [kind |-> "return", val |-> v]
Raise(e)  == [kind |-> "raise",  val |-> e]

\* f"{price:.2f}", the price held in cents
Fmt2f(cents) ==
    ToString(cents \div 100) \o "." \o
    (IF cents % 100 < 10 THEN "0" ELSE "") \o ToString(cents % 100)

\* f"{weight}" of a float holding a whole number of ounces
FmtFloat(w) == ToString(w) \o ".0"

----------------------------------------------------------------------------
(* JSON values of a response body *)

JObject(f) == [t |-> "object", fields |-> f, items |-> <<>>]
JList(s)   == [t |-> "list",   fields |-> <<>>, items |-> s]
JScalar    == [t |-> "scalar", fields |-> <<>>, items |-> <<>>]
JInvalid   == [t |-> "invalid", fields |-> <<>>, items |-> <<>>]

\* the identifier the endpoint gives its n-th record
RecordId(n) == "prod-" \o ToString(n)

\* the created row, as the endpoint represents it
Row(id, name)      == JObject([id |-> id, name |-> name])
RowNoId(name)      == JObject([name |-> name])

\* the bodies the endpoint may send with a status, for the row it created
Bodies(id, name) ==
    { Row(id, name), RowNoId(name),
      JList(<<Row(id, name)>>), JList(<<RowNoId(name)>>), JList(<<>>),
      JList(<<JScalar>>), JScalar, JInvalid }

\* the statuses the endpoint may answer with
Statuses == {201, 204, 301, 409, 500}

\* Response.is_success
IsSuccess(status) == 200 <= status /\ status <= 299

----------------------------------------------------------------------------
(* The persistence client *)

\* the JSON object supabase_insert_product posts
InsertPayload(seller_id, name, weight, cost, quantity) ==
    [ name |-> name, price |-> cost, weight |-> weight, weight_unit |-> "oz",
      quantity_in_stock |-> quantity, seller_id |-> seller_id, image |-> "",
      description |-> <<name, " - added via voice">>,
      images |-> <<>>, colors |-> <<>>, sizes |-> <<>>, variants |-> <<>> ]

\* what the endpoint did with a POST: no answer at all, or a status and a body
NoResponse == [transport |-> "failed", status |-> 0, body |-> JInvalid]
NotSent == [transport |-> "none", status |-> 0, body |-> JInvalid]
Response(status, body) == [transport |-> "ok", status |-> status, body |-> body]

\* the answers the endpoint may give to the POST of `name`, were the row it
\* creates to get identifier `id`
Responses(id, name) ==
    {NoResponse}
    \cup { Response(st, b) : st \in {x \in Statuses : IsSuccess(x)},
                             b \in Bodies(id, name) }
    \cup { Response(st, RowNoId("error")) : st \in {x \in Statuses : ~IsSuccess(x)} }

\* resp.raise_for_status()
raise_for_status(resp) ==
    IF IsSuccess(resp.status) THEN Return(resp) ELSE Raise("HTTPStatusError")

\* resp.json()
json(resp) ==
    IF resp.body.t = "invalid" THEN Raise("JSONDecodeError") ELSE Return(resp.body)

\* supabase_insert_product without its raise_for_status() line
supabase_insert_product_unchecked(resp) ==
    IF resp.transport # "ok" THEN Raise("ConnectError")
    ELSE IF json(resp).kind = "raise" THEN json(resp)
    ELSE LET data == json(resp).val IN
         IF data.t = "list"
         THEN IF Len(data.items) = 0 THEN Raise("IndexError")
              ELSE Return(data.items[1])
         ELSE Return(data)

\* supabase_insert_product, from the answer to its POST on
supabase_insert_product(resp) ==
    IF resp.transport # "ok" THEN Raise("ConnectError")
    ELSE IF raise_for_status(resp).kind = "raise" THEN raise_for_status(resp)
    ELSE IF json(resp).kind = "raise" THEN json(resp)
    ELSE LET data == json(resp).val IN
         IF data.t = "list"
         THEN IF Len(data.items) = 0 THEN Raise("IndexError")
              ELSE Return(data.items[1])
         ELSE Return(data)

\* product.get("id", "unknown")
get_id(product) ==
    IF product.t # "object" THEN Raise("AttributeError")
    ELSE IF "id" \in DOMAIN product.fields THEN Return(product.fields.id)
    ELSE Return("unknown")

----------------------------------------------------------------------------
(* The room identity lookups *)

\* the for loop of get_seller_id_from_room, from position i on
RECURSIVE SellerLoop(_, _)
SellerLoop(rm, i) ==
    IF i > Len(rm) THEN None
    ELSE IF rm[i].kind = PARTICIPANT_KIND_AGENT THEN SellerLoop(rm, i + 1)
    ELSE rm[i].identity

\* the try block of get_seller_id_from_room
SellerTry(ctxOK, rm) ==
    IF ~ctxOK THEN Raise("RuntimeError") ELSE Return(SellerLoop(rm, 1))

\* get_seller_id_from_room without the test that skips agents
get_seller_id_from_room_any(ctxOK, rm) ==
    IF ~ctxOK \/ Len(rm) = 0 THEN Return(None) ELSE Return(rm[1].identity)

\* get_seller_id_from_room without its except clause
get_seller_id_from_room_uncaught(ctxOK, rm) == SellerTry(ctxOK, rm)

get_seller_id_from_room(ctxOK, rm) ==
    IF SellerTry(ctxOK, rm).kind = "raise" THEN Return(None)
    ELSE SellerTry(ctxOK, rm)

\* the for loop of add_product_to_show, from position i on with the
\* broadcaster_identity found so far
RECURSIVE BroadcasterLoop(_, _, _)
BroadcasterLoop(rm, i, found) ==
    IF i > Len(rm) THEN found
    ELSE IF rm[i].kind # PARTICIPANT_KIND_AGENT THEN rm[i].identity
    ELSE BroadcasterLoop(rm, i + 1, found)

\* the broadcaster loop without the test of the participant's kind
broadcaster_identity_any(rm) == IF Len(rm) = 0 THEN None ELSE rm[1].identity

\* the broadcaster loop without its break: the last non-agent wins
RECURSIVE BroadcasterNoBreak(_, _, _)
BroadcasterNoBreak(rm, i, found) ==
    IF i > Len(rm) THEN found
    ELSE IF rm[i].kind # PARTICIPANT_KIND_AGENT
    THEN BroadcasterNoBreak(rm, i + 1, rm[i].identity)
    ELSE BroadcasterNoBreak(rm, i + 1, found)

broadcaster_identity_last(rm) == BroadcasterNoBreak(rm, 1, None)

broadcaster_identity(rm) == BroadcasterLoop(rm, 1, None)

----------------------------------------------------------------------------
(* The tools *)

\* the pieces the tools' results begin with
SellerError     == "Error: Could not determine seller identity."
CreatedPrefix   == "Product created successfully. "
CreateErrPrefix == "Error creating product: "
NoBroadcaster   == "Error: No broadcaster found in the room."
AddedPrefix     == "Product added to the live show carousel. "
ShowErrPrefix   == "Error adding product to show: "

\* perform_rpc's response_timeout, in seconds
RESPONSE_TIMEOUT == 10

\* a tool that is waiting for the network has no outcome yet
Pending == [kind |-> "pending", val |-> <<>>]

\* create_product up to its await: the seller lookup and the POST it sends
CreateStart(ctxOK, rm, name, weight, price, quantity) ==
    LET seller_id == get_seller_id_from_room(ctxOK, rm) IN
    IF seller_id.kind = "raise"
    THEN [pc |-> "idle", posts |-> <<>>, outcome |-> seller_id]
    ELSE IF ~Truthy(seller_id.val)
    THEN [pc |-> "idle", posts |-> <<>>, outcome |-> Return(<<SellerError>>)]
    ELSE [pc |-> "create_product",
          posts |-> <<InsertPayload(seller_id.val, name, weight, price, quantity)>>,
          outcome |-> Pending]

\* the summary create_product returns
CreatedText(name, weight, price, quantity, product_id) ==
    << CreatedPrefix, "Name: ", name, ", Price: $", Fmt2f(price),
       ", Weight: ", FmtFloat(weight), "oz, ", "Quantity: ", ToString(quantity),
       ". Product ID: ", product_id >>

\* create_product posting a second time when the insert failed
CreateFinishRetry(self_id, self_name, name, weight, price, quantity, resp) ==
    LET product == supabase_insert_product(resp)
        failed(e) == [ last_product_id |-> self_id, last_product_name |-> self_name,
                       pc |-> "idle",
                       posts |-> <<InsertPayload("", name, weight, price, quantity)>>,
                       outcome |-> Return(<<CreateErrPrefix, e>>) ]
    IN  IF product.kind = "raise" THEN failed(product.val)
        ELSE IF get_id(product.val).kind = "raise" THEN failed(get_id(product.val).val)
        ELSE LET product_id == get_id(product.val).val IN
             [ last_product_id |-> product_id, last_product_name |-> name,
               pc |-> "idle", posts |-> <<>>,
               outcome |-> Return(CreatedText(name, weight, price, quantity, product_id)) ]

\* create_product from the answer to its POST on: the session fields it
\* leaves, its outcome, and the POSTs it sends on top of the first
CreateFinish(self_id, self_name, name, weight, price, quantity, resp) ==
    LET product == supabase_insert_product(resp)
        failed(e) == [ last_product_id |-> self_id, last_product_name |-> self_name,
                       pc |-> "idle", posts |-> <<>>,
                       outcome |-> Return(<<CreateErrPrefix, e>>) ]
    IN  IF product.kind = "raise" THEN failed(product.val)
        ELSE IF get_id(product.val).kind = "raise" THEN failed(get_id(product.val).val)
        ELSE LET product_id == get_id(product.val).val IN
             [ last_product_id |-> product_id, last_product_name |-> name,
               pc |-> "idle", posts |-> <<>>,
               outcome |-> Return(CreatedText(name, weight, price, quantity, product_id)) ]

\* the RPC's payload without the remembered name
ShowPayloadNoName(product_id, self_name) ==
    [productId |-> product_id, name |-> "Product"]

\* json.dumps of the RPC's payload: the object, by its keys
ShowPayload(product_id, self_name) ==
    [productId |-> product_id, name |-> Or(self_name, "Product")]

\* add_product_to_show up to its await: the broadcaster lookup and the RPC
ShowStart(ctxOK, rm, self_name, product_id) ==
    IF ~ctxOK
    THEN [pc |-> "idle", rpcs |-> <<>>,
          outcome |-> Return(<<ShowErrPrefix, "RuntimeError">>)]
    ELSE IF ~Truthy(broadcaster_identity(rm))
    THEN [pc |-> "idle", rpcs |-> <<>>, outcome |-> Return(<<NoBroadcaster>>)]
    ELSE [pc |-> "add_product_to_show",
          rpcs |-> << [ destination_identity |-> broadcaster_identity(rm),
                        method |-> "addProductToShow",
                        payload |-> ShowPayload(product_id, self_name),
                        response_timeout |-> RESPONSE_TIMEOUT ] >>,
          outcome |-> Pending]

\* what perform_rpc may come to: the peer's response, or an RpcError
RpcResults ==
    { Return("ok"), Return(""),
      Raise("RpcError: Response timeout"), Raise("RpcError: Connection timeout"),
      Raise("RpcError: Application error") }

\* the RpcErrors of a peer that did not answer in time or was not reached
Undelivered ==
    { "RpcError: Response timeout", "RpcError: Connection timeout" }

\* add_product_to_show sending the RPC again when it failed
ShowFinishRetry(rpc, response) ==
    IF response.kind = "raise"
    THEN [pc |-> "add_product_to_show", rpcs |-> <<rpc>>, outcome |-> Pending]
    ELSE [pc |-> "idle", rpcs |-> <<>>,
          outcome |-> Return(<<AddedPrefix, response.val>>)]

\* add_product_to_show from perform_rpc's result on, and the RPCs it sends
\* on top of the first
ShowFinish(rpc, response) ==
    IF response.kind = "raise"
    THEN [pc |-> "idle", rpcs |-> <<>>,
          outcome |-> Return(<<ShowErrPrefix, response.val>>)]
    ELSE [pc |-> "idle", rpcs |-> <<>>,
          outcome |-> Return(<<AddedPrefix, response.val>>)]

----------------------------------------------------------------------------
(* The session *)

NoCall ==
    [ tool |-> "none", name |-> "", weight |-> 0, price |-> 0, quantity |-> 0,
      product_id |-> "", ctxOK |-> TRUE, snap |-> <<>>,
      pre_id |-> None, pre_name |-> None,
      posts |-> <<>>, rpcs |-> <<>>, resp |-> NotSent, response |-> Pending,
      outcome |-> Pending ]

\* ProductAssistant.__init__, in a room nobody has joined yet
Init ==
    /\ room = <<>>
    /\ last_product_id = None
    /\ last_product_name = None
    /\ pc = "idle"
    /\ call = NoCall
    /\ hist = [calls |-> 0, creates |-> 0, posts |-> 0, succ |-> 0, records |-> 0]
    /\ good = [id |-> None, name |-> None]

InRoom(p) == \E i \in 1..Len(room) : room[i] = p

\* the transport adds a participant to remote_participants
Join(p) ==
    /\ ~InRoom(p)
    /\ room' = Append(room, p)
    /\ UNCHANGED <<last_product_id, last_product_name, pc, call, hist, good>>

\* the transport removes the i-th participant
Leave(i) ==
    /\ room' = SubSeq(room, 1, i - 1) \o SubSeq(room, i + 1, Len(room))
    /\ UNCHANGED <<last_product_id, last_product_name, pc, call, hist, good>>

\* whether a tool's outcome is the summary of a created product
IsCreated(outcome) == outcome.kind = "return" /\ outcome.val[1] = CreatedPrefix

\* the identifier the endpoint's answer carries, None if it carries none
EndpointId(resp) ==
    LET row == IF resp.body.t = "list" /\ Len(resp.body.items) > 0
               THEN resp.body.items[1] ELSE resp.body
    IN  IF resp.transport = "ok" /\ IsSuccess(resp.status)
           /\ row.t = "object" /\ "id" \in DOMAIN row.fields
        THEN row.fields.id ELSE None

\* the language model invokes create_product; the tool runs to its await
create_product(name, weight, price, quantity) ==
    /\ pc = "idle"
    /\ hist.calls < MaxCalls
    /\ \E ctxOK \in BOOLEAN :
         LET eff == CreateStart(ctxOK, room, name, weight, price, quantity) IN
         /\ pc' = eff.pc
         /\ call' = [ tool |-> "create_product", name |-> name, weight |-> weight,
                      price |-> price, quantity |-> quantity, product_id |-> "",
                      ctxOK |-> ctxOK, snap |-> room,
                      pre_id |-> last_product_id, pre_name |-> last_product_name,
                      posts |-> eff.posts, rpcs |-> <<>>, resp |-> NotSent,
                      response |-> Pending, outcome |-> eff.outcome ]
         /\ hist' = [hist EXCEPT !.calls = @ + 1, !.creates = @ + 1,
                                 !.posts = @ + Len(eff.posts)]
    /\ UNCHANGED <<room, last_product_id, last_product_name, good>>

\* the endpoint answers (or the POST fails) and create_product runs to its end
create_product_resumes ==
    /\ pc = "create_product"
    /\ \E resp \in Responses(RecordId(hist.records + 1), call.name) :
         LET eff == CreateFinish(last_product_id, last_product_name, call.name,
                                 call.weight, call.price, call.quantity, resp)
         IN
         /\ pc' = eff.pc
         /\ last_product_id' = eff.last_product_id
         /\ last_product_name' = eff.last_product_name
         /\ call' = [call EXCEPT !.posts = @ \o eff.posts, !.resp = resp,
                                  !.outcome = eff.outcome]
         /\ hist' = [hist EXCEPT
                       !.posts = @ + Len(eff.posts),
                       !.succ = @ + (IF IsCreated(eff.outcome) THEN 1 ELSE 0),
                       !.records = @ + (IF resp.transport = "ok" /\ IsSuccess(resp.status)
                                        THEN 1 ELSE 0)]
         /\ good' = IF IsCreated(eff.outcome)
                    THEN [id |-> EndpointId(resp), name |-> call.name]
                    ELSE good
    /\ UNCHANGED room

\* the language model invokes add_product_to_show; the tool runs to its await
add_product_to_show(product_id) ==
    /\ pc = "idle"
    /\ hist.calls < MaxCalls
    /\ \E ctxOK \in BOOLEAN :
         LET eff == ShowStart(ctxOK, room, last_product_name, product_id) IN
         /\ pc' = eff.pc
         /\ call' = [ tool |-> "add_product_to_show", name |-> "", weight |-> 0,
                      price |-> 0, quantity |-> 0, product_id |-> product_id,
                      ctxOK |-> ctxOK, snap |-> room,
                      pre_id |-> last_product_id, pre_name |-> last_product_name,
                      posts |-> <<>>, rpcs |-> eff.rpcs, resp |-> NotSent,
                      response |-> Pending, outcome |-> eff.outcome ]
    /\ hist' = [hist EXCEPT !.calls = @ + 1]
    /\ UNCHANGED <<room, last_product_id, last_product_name, good>>

\* perform_rpc returns or raises and add_product_to_show runs to its end
add_product_to_show_resumes ==
    /\ pc = "add_product_to_show"
    /\ \E response \in RpcResults :
         LET eff == ShowFinish(call.rpcs[Len(call.rpcs)], response) IN
         /\ pc' = eff.pc
         /\ call' = [call EXCEPT !.rpcs = @ \o eff.rpcs, !.response = response,
                                  !.outcome = eff.outcome]
    /\ UNCHANGED <<room, last_product_id, last_product_name, hist, good>>

Next ==
    \/ \E p \in Universe : Join(p)
    \/ \E i \in 1..Len(room) : Leave(i)
    \/ \E name \in Names, weight \in Weights, price \in Prices, quantity \in Quantities :
         create_product(name, weight, price, quantity)
    \/ create_product_resumes
    \/ \E product_id \in ProductIds : add_product_to_show(product_id)
    \/ add_product_to_show_resumes

Spec == Init /\ [][Next]_vars

----------------------------------------------------------------------------
(* What the claims speak of *)

\* the last invocation was of `tool` and has run to its end
Finished(tool) == call.tool = tool /\ pc = "idle"

\* the room holds no participant that is not an agent
NoNonAgent(rm) == \A i \in 1..Len(rm) : rm[i].kind = PARTICIPANT_KIND_AGENT

\* the identity of the first participant that is not an agent, None without one
FirstNonAgent(rm) ==
    LET S == {i \in 1..Len(rm) : rm[i].kind # PARTICIPANT_KIND_AGENT} IN
    IF S = {} THEN None ELSE rm[CHOOSE i \in S : \A j \in S : i <= j].identity

\* the session fields are what they were when the invocation began
SessionUnchanged ==
    last_product_id = call.pre_id /\ last_product_name = call.pre_name

\* the endpoint answered with a status that is not 2xx
NonSuccessAnswer(resp) == resp.transport = "ok" /\ ~IsSuccess(resp.status)

\* the endpoint answered 2xx with an empty sequence, or with an object (alone
\* or first in the sequence) that has no identifier
MalformedAnswer(resp) ==
    /\ resp.transport = "ok" /\ IsSuccess(resp.status)
    /\ \/ resp.body.t = "list" /\ Len(resp.body.items) = 0
       \/ resp.body.t = "object" /\ "id" \notin DOMAIN resp.body.fields
       \/ /\ resp.body.t = "list" /\ Len(resp.body.items) > 0
          /\ resp.body.items[1].t = "object"
          /\ "id" \notin DOMAIN resp.body.items[1].fields

\* the identifiers of the records the endpoint has created
RecordIds == {RecordId(n) : n \in 1..hist.records}

----------------------------------------------------------------------------
(* The claims *)

\* C1: when the endpoint answers create_product's POST with a non-2xx status,
\* create_product returns a string beginning "Error creating product:" and
\* last_product_id and last_product_name are what they were before the call.
C1_NonSuccessStatusIsError ==
    (Finished("create_product") /\ NonSuccessAnswer(call.resp)) =>
        /\ call.outcome.kind = "return"
        /\ call.outcome.val[1] = CreateErrPrefix
        /\ SessionUnchanged

\* a non-2xx answer to a create_product called after a product was created
C1_Witness ==
    /\ Finished("create_product") /\ NonSuccessAnswer(call.resp)
    /\ call.pre_id # None /\ call.pre_name # None

\* C2: when the endpoint answers 2xx with an empty sequence or an object with
\* no identifier, create_product returns an error string, not the "Product
\* created successfully" summary, and leaves last_product_id/name alone; every
\* summary carries the identifier of a record the endpoint created.
C2_MalformedAnswerIsError ==
    /\ (Finished("create_product") /\ MalformedAnswer(call.resp)) =>
          /\ call.outcome.kind = "return"
          /\ call.outcome.val[1] = CreateErrPrefix
          /\ SessionUnchanged
    /\ (Finished("create_product") /\ IsCreated(call.outcome)) =>
          call.outcome.val[Len(call.outcome.val)] \in RecordIds

\* C3: when the room holds no non-agent participant, create_product returns
\* exactly "Error: Could not determine seller identity.", sends no POST and
\* leaves last_product_id/name alone.
C3_NoSellerNoPost ==
    (call.tool = "create_product" /\ NoNonAgent(call.snap)) =>
        /\ pc = "idle"
        /\ call.outcome = Return(<<SellerError>>)
        /\ call.posts = <<>>
        /\ SessionUnchanged

\* create_product called in a room of agents only, after a product was created
C3_Witness ==
    /\ Finished("create_product") /\ call.ctxOK
    /\ Len(call.snap) > 0 /\ NoNonAgent(call.snap)
    /\ call.pre_id # None

\* C4: when the room add_product_to_show looks into holds no non-agent
\* participant, it returns exactly "Error: No broadcaster found in the room."
\* and sends no RPC, whatever the product_id and the session fields.
C4_NoBroadcasterNoRpc ==
    (call.tool = "add_product_to_show" /\ call.ctxOK /\ NoNonAgent(call.snap)) =>
        /\ pc = "idle"
        /\ call.outcome = Return(<<NoBroadcaster>>)
        /\ call.rpcs = <<>>

\* add_product_to_show called in a room of agents only, after a product was
\* created
C4_Witness ==
    /\ Finished("add_product_to_show") /\ call.ctxOK
    /\ Len(call.snap) > 0 /\ NoNonAgent(call.snap)
    /\ last_product_name = "mug"

\* the common part of C5: add_product_to_show found a non-agent participant and
\* its RPC was answered; it returned "Product added to the live show
\* carousel. ..." after one RPC addProductToShow to the first non-agent
\* participant, with the keys productId and name, productId the argument
C5_Answered ==
    /\ Finished("add_product_to_show") /\ call.ctxOK
    /\ ~NoNonAgent(call.snap)
    /\ call.response.kind = "return"

C5_OneRpc ==
    /\ call.outcome.kind = "return"
    /\ call.outcome.val[1] = AddedPrefix
    /\ Len(call.rpcs) = 1
    /\ call.rpcs[1].method = "addProductToShow"
    /\ call.rpcs[1].destination_identity = FirstNonAgent(call.snap)
    /\ DOMAIN call.rpcs[1].payload = {"productId", "name"}
    /\ call.rpcs[1].payload.productId = call.product_id

C6_NoRpcRetry ==
    /\ call.tool = "add_product_to_show" => Len(call.rpcs) <= 1
    /\ (Finished("add_product_to_show") /\ call.response.kind = "raise") =>
          /\ call.outcome = Return(<<ShowErrPrefix, call.response.val>>)
          /\ Len(call.rpcs) = 1

\* an add_product_to_show whose RPC timed out
C6_Witness ==
    /\ Finished("add_product_to_show")
    /\ call.response = Raise("RpcError: Response timeout")
    /\ call.response.val \in Undelivered

\* C7: every invocation of either tool ends by returning a text, never by
\* raising, whatever the room, the endpoint's answer, the RPC's result and the
\* job-context lookup do; until it ends it is waiting for the network.
C7_NoExceptionCrosses ==
    call.tool # "none" =>
        /\ call.outcome.kind # "raise"
        /\ pc = "idle" => (call.outcome.kind = "return" /\ Len(call.outcome.val) >= 1)
        /\ pc # "idle" => (call.outcome = Pending /\ pc = call.tool)

\* a create_product whose job-context lookup failed
C7_Witness ==
    /\ Finished("create_product") /\ ~call.ctxOK
    /\ call.outcome.kind = "return"

\* C8: (last_product_id, last_product_name) is unset exactly when no
\* create_product has succeeded, and otherwise is the identifier the endpoint
\* returned and the name argument of the most recent create_product that
\* succeeded.
C8_PairIsLastSuccess ==
    /\ (hist.succ = 0) <=> (last_product_id = None /\ last_product_name = None)
    /\ hist.succ > 0 => (last_product_id = good.id /\ last_product_name = good.name)

\* C9: the seller lookup and the broadcaster lookup give the same identity in
\* every room, and nothing in the same rooms: each tool sends to the
\* participant the other tool's lookup finds, and takes its no-participant
\* return exactly where the other tool's lookup finds nobody.
C9_SameSearch ==
    /\ get_seller_id_from_room(TRUE, room).val = broadcaster_identity(room)
    /\ (call.tool = "create_product" /\ call.ctxOK) =>
          /\ (call.outcome = Return(<<SellerError>>))
                <=> ~Truthy(broadcaster_identity(call.snap))
          /\ call.posts # <<>> =>
                call.posts[1].seller_id = broadcaster_identity(call.snap)
    /\ (call.tool = "add_product_to_show" /\ call.ctxOK) =>
          /\ (call.outcome = Return(<<NoBroadcaster>>))
                <=> ~Truthy(get_seller_id_from_room(TRUE, call.snap).val)
          /\ call.rpcs # <<>> =>
                call.rpcs[1].destination_identity
                    = get_seller_id_from_room(TRUE, call.snap).val

\* an add_product_to_show that sent its RPC from a room of an agent followed
\* by two non-agents
C9_Witness ==
    /\ call.tool = "add_product_to_show" /\ call.rpcs # <<>>
    /\ Len(call.snap) = 3
    /\ call.snap[1].kind = PARTICIPANT_KIND_AGENT

\* C10: a create_product that resolves a seller sends exactly one POST, with
\* that seller's identity as seller_id, and one that resolves none sends no
\* POST; the session never sends more POSTs than it had create_product
\* invocations, and the endpoint holds a record of its own for every
\* create_product that succeeded.
C10_OnePostPerCreate ==
    /\ call.tool = "create_product" =>
          IF call.ctxOK /\ ~NoNonAgent(call.snap)
          THEN /\ Len(call.posts) = 1
               /\ call.posts[1].seller_id = FirstNonAgent(call.snap)
          ELSE call.posts = <<>>
    /\ hist.posts <= hist.creates
    /\ hist.succ <= hist.records
    /\ Cardinality(RecordIds) = hist.records

\* a second create_product with the same arguments succeeded, after a first
\* whose seller came second in the room
C10_Witness ==
    /\ Finished("create_product") /\ IsCreated(call.outcome)
    /\ hist.succ = 2 /\ hist.records = 2
    /\ call.pre_name = call.name
    /\ call.snap[1].kind = PARTICIPANT_KIND_AGENT

====
